---- MODULE Spec2Model ----
(***************************************************************************)
(* Model of ducker/notifications/handler.py: NotificationHandler (event    *)
(* and user resolution, template rendering, sender registry, dispatch) and *)
(* NotificationSender (slug check at construction, bulk_send).             *)
(*                                                                         *)
(* Python strings that the code scans (templates, field values) are tuples *)
(* of one-character strings; identifiers, slugs and error names are TLA+   *)
(* strings.                                                                *)
(***************************************************************************)
EXTENDS Integers, Sequences, FiniteSets, TLC

VARIABLES
    subclasses,   \* NotificationSender.__subclasses__(), in definition order
    store,        \* the rows of NotificationEvent, with their mediums
    handler,      \* the NotificationHandler instance: attributes and __dict__ cache
    last,         \* what the last call on the handler did and how it ended
    queries,      \* event-store queries issued by this handler instance
    firstEvent,   \* outcome of the first read of `event` on this instance
    rtext,        \* replace_variables: the template
    robj,         \* replace_variables: the reference object
    rout,         \* replace_variables: <<the returned text>> (<<>> before)
    busers,       \* bulk_send: users
    btexts,       \* bulk_send: texts
    bsendOk,      \* bulk_send: per position, does the variant's send return
    bcalls,       \* bulk_send: the send calls made, in order
    bstate        \* bulk_send: "idle", "done" or "raised"

vars == <<subclasses, store, handler, last, queries, firstEvent,
          rtext, robj, rout, busers, btexts, bsendOk, bcalls, bstate>>
handlerVars == <<subclasses, store, handler, last, queries, firstEvent>>
renderVars == <<rtext, robj, rout>>
bulkVars == <<busers, btexts, bsendOk, bcalls, bstate>>

----------------------------------------------------------------------------
(* Bounds *)

MaxPieces == 3      \* template = at most this many pieces
MaxMediums == 2     \* mediums of one event
MaxSenders == 2     \* registered sender variants
MaxQueries == 2     \* event-store queries per handler instance
MaxBulk == 3        \* length of bulk_send's users / texts

----------------------------------------------------------------------------
(* Python values *)

None == "None"

\* getattr(obj, name, default) on an object whose attributes are obj.attrs
getattr(obj, name, default) ==
    IF name \in DOMAIN obj.attrs THEN obj.attrs[name] ELSE default

----------------------------------------------------------------------------
(* re and str *)

IsSpace(c) == c = " "
IsWord(c) == c \in {"a", "b", "x", "_", "1"}

\* end of the longest run of whitespace starting at i (greedy \s*)
SkipSpace(s, i) ==
    CHOOSE j \in i..(Len(s) + 1) :
        /\ \A k \in i..(j - 1) : IsSpace(s[k])
        /\ j = Len(s) + 1 \/ ~IsSpace(s[j])

\* end of the longest run of word characters starting at i (greedy \w+)
SkipWord(s, i) ==
    CHOOSE j \in i..(Len(s) + 1) :
        /\ \A k \in i..(j - 1) : IsWord(s[k])
        /\ j = Len(s) + 1 \/ ~IsWord(s[j])

\* r"({{\s*)(\w+)(\s*}})" tried at position i: <<the match>>, or <<>>
MatchAt(s, i) ==
    IF i + 1 <= Len(s) /\ s[i] = "{" /\ s[i + 1] = "{"
    THEN LET p2 == SkipSpace(s, i + 2)
             p3 == SkipWord(s, p2)
             p4 == SkipSpace(s, p3)
         IN IF p3 > p2 /\ p4 + 1 <= Len(s) /\ s[p4] = "}" /\ s[p4 + 1] = "}"
            THEN <<[start |-> i, end |-> p4 + 2,
                  group0 |-> SubSeq(s, i, p4 + 1),
                  group2 |-> SubSeq(s, p2, p3 - 1)]>>
            ELSE <<>>
    ELSE <<>>

\* pattern.finditer(s): the non-overlapping matches, left to right
RECURSIVE finditer(_, _)
finditer(s, i) ==
    IF i > Len(s) THEN <<>>
    ELSE LET m == MatchAt(s, i)
         IN IF m = <<>> THEN finditer(s, i + 1)
            ELSE m \o finditer(s, m[1].end)

\* s.replace(old, new) from position i on, old non-empty
RECURSIVE str_replace(_, _, _, _)
str_replace(s, old, new, i) ==
    IF i + Len(old) - 1 > Len(s) THEN SubSeq(s, i, Len(s))
    ELSE IF SubSeq(s, i, i + Len(old) - 1) = old
         THEN new \o str_replace(s, old, new, i + Len(old))
         ELSE <<s[i]>> \o str_replace(s, old, new, i + 1)

\* the loop of replace_variables over the matches of the ORIGINAL text
RECURSIVE ReplaceLoop(_, _, _, _)
ReplaceLoop(ref_obj, matches, k, replaced_text) ==
    IF k > Len(matches) THEN replaced_text
    ELSE ReplaceLoop(ref_obj, matches, k + 1,
                     str_replace(replaced_text, matches[k].group0,
                                 getattr(ref_obj, matches[k].group2, <<>>), 1))

replace_variables(ref_obj, text) ==
    ReplaceLoop(ref_obj, finditer(text, 1), 1, text)

----------------------------------------------------------------------------
(* Reference objects, users, mediums, events, sender variants *)

Chars(c1, c2, c3, c4, c5) == <<c1, c2, c3, c4, c5>>
UserAttr == <<"u", "s", "e", "r">>
FieldA == <<"a">>
FieldB == <<"b">>
TokA == Chars("{", "{", "a", "}", "}")
TokB == Chars("{", "{", "b", "}", "}")
TokASpaced == <<"{", "{", " ", "a", " ", "}", "}">>

\* Objects are denoted by their ids; attrs are the attributes getattr finds.
RefUser == [id |-> "ann", isUser |-> TRUE, attrs |-> (FieldA :> <<"1">>)]
RefOrder == [id |-> "order", isUser |-> FALSE,
             attrs |-> (UserAttr :> "bob") @@ (FieldA :> TokB) @@ (FieldB :> <<"x">>)]
RefNote == [id |-> "note", isUser |-> FALSE, attrs |-> (FieldA :> <<"1">>)]
RefDraft == [id |-> "draft", isUser |-> FALSE,
             attrs |-> (UserAttr :> None) @@ (FieldB :> <<"x">>)]
RefObjs == {RefUser, RefOrder, RefNote, RefDraft}

Identifiers == {"welcome"}

Email == [slug |-> "email", label |-> "Email"]
Sms == [slug |-> "sms", label |-> "SMS"]
Blank == [slug |-> "", label |-> "Blank"]
Mediums == {Email, Sms, Blank}

EmailSender == [name |-> "EmailSender", SLUG |-> "email", send |-> "ok"]
SmsSender == [name |-> "SmsSender", SLUG |-> "sms", send |-> "ok"]
FailingSender == [name |-> "FailingSender", SLUG |-> "sms", send |-> "raise"]
EmptySlugSender == [name |-> "EmptySlugSender", SLUG |-> "", send |-> "ok"]
SenderClasses == {EmailSender, SmsSender, FailingSender, EmptySlugSender}

\* Python truthiness of a str-or-None value
Falsy(v) == v = None \/ v = ""

Range(f) == {f[i] : i \in DOMAIN f}
NoRepeat(f) == \A i, j \in DOMAIN f : i # j => f[i] # f[j]
SeqsUpTo(S, n) == UNION {[1..k -> S] : k \in 0..n}

\* an event's mediums (a many-to-many relation: no medium twice)
MediumLists == {ms \in SeqsUpTo(Mediums, MaxMediums) : NoRepeat(ms)}

\* NotificationEvent.get_text_for_medium: the template stored for the medium
get_text_for_medium(event, medium) ==
    CASE medium.slug = "email" -> <<"x">> \o TokA
      [] medium.slug = "sms" -> TokASpaced \o TokB
      [] OTHER -> <<"x", "}", "}">>

----------------------------------------------------------------------------
(* Outcomes and traces *)

OK == "ok"
RelatedUserNotFound == "RelatedUserNotFound"
RelatedEventNotFound == "RelatedEventNotFound"
RelatedSenderClassNotFound == "RelatedSenderClassNotFound"
SenderSlugNotFoundException == "SenderSlugNotFoundException"
PlainException == "Exception"
SendRaised == "raised by send"
HookRaised == "raised by handle_followup_events"

\* one observable step of a call: op at medium number i (0: not in the loop)
Step(op, i, cls, user, text) ==
    [op |-> op, i |-> i, cls |-> cls, user |-> user, text |-> text]
Result(h, trace, err, val) == [h |-> h, trace |-> trace, err |-> err, val |-> val]

----------------------------------------------------------------------------
(* NotificationHandler *)
(* A method that uses an intermediate result several times is written as   *)
(* the method applied up to that result, followed by an operator that      *)
(* takes the result as a parameter and does the rest.                      *)

\* __init__: the attributes, and an empty cache of the cached properties
NewHandler(ref_obj, identifier, hook) ==
    [ref_obj |-> ref_obj, identifier |-> identifier, hook |-> hook,
     event |-> <<>>, user |-> <<>>, all_senders |-> <<>>]

\* (mutant) the check of the user dropped: whatever getattr gives is the user
UncheckedUser(h, user) ==
    Result([h EXCEPT !.user = <<user>>],
           <<Step("resolve_user", 0, None, user, <<>>)>>, OK, <<user>>)

\* the rest of `user` once getattr(self.ref_obj, "user", None) is known
CheckedUser(h, user) ==
    IF Falsy(user)
    THEN Result(h, <<Step("resolve_user", 0, None, None, <<>>)>>,
                RelatedUserNotFound, <<>>)
    ELSE Result([h EXCEPT !.user = <<user>>],
                <<Step("resolve_user", 0, None, user, <<>>)>>, OK, <<user>>)

\* the `user` cached property
UserProperty(h) ==
    IF h.user # <<>> THEN Result(h, <<>>, OK, h.user)
    ELSE IF h.ref_obj.isUser
         THEN Result([h EXCEPT !.user = <<h.ref_obj.id>>],
                     <<Step("resolve_user", 0, None, h.ref_obj.id, <<>>)>>,
                     OK, <<h.ref_obj.id>>)
         ELSE CheckedUser(h, getattr(h.ref_obj, UserAttr, None))

\* the query of `event`, filtered by identifier, and what follows it
QueryEvent(h, found) ==
    IF found = {}
    THEN Result(h, <<Step("query", 0, None, None, <<>>)>>, RelatedEventNotFound, <<>>)
    ELSE Result([h EXCEPT !.event = <<CHOOSE e \in found : TRUE>>],
                <<Step("query", 0, None, None, <<>>)>>, OK,
                <<CHOOSE e \in found : TRUE>>)

\* (mutant) a plain property: every read queries the store
EventPropertyUncached(h, rows) ==
    QueryEvent(h, {e \in rows : e.identifier = h.identifier})

\* the `event` cached property
EventProperty(h, rows) ==
    IF h.event # <<>> THEN Result(h, <<>>, OK, h.event)
    ELSE QueryEvent(h, {e \in rows : e.identifier = h.identifier})

\* {klass.SLUG: klass for klass in subs}: a later variant replaces an earlier
BuildSenders(subs) ==
    [slug \in {subs[i].SLUG : i \in DOMAIN subs} |->
        subs[CHOOSE i \in DOMAIN subs :
                /\ subs[i].SLUG = slug
                /\ \A j \in DOMAIN subs : subs[j].SLUG = slug => j <= i]]

\* the mapping just built is cached and returned
Built(h, senders) ==
    Result([h EXCEPT !.all_senders = <<senders>>],
           <<Step("build", 0, None, None, <<>>)>>, OK, <<senders>>)

\* (mutant) a plain property: the mapping is rebuilt by every lookup
AllSendersRebuilt(h, subs) == Built(h, BuildSenders(subs))

\* the `all_senders` cached property
AllSendersProperty(h, subs) ==
    IF h.all_senders # <<>> THEN Result(h, <<>>, OK, h.all_senders)
    ELSE Built(h, BuildSenders(subs))

\* NotificationSender.__init__
SenderInit(klass) == IF Falsy(klass.SLUG) THEN SenderSlugNotFoundException ELSE OK

\* klass(): val is <<the variant instantiated>>
Instantiate(h, trace, klass, i) ==
    Result(h, Append(trace, Step("instantiate", i, klass.name, None, <<>>)),
           SenderInit(klass), IF SenderInit(klass) = OK THEN <<klass>> ELSE <<>>)

\* (mutant) the SLUG of every registered variant is checked at lookup
SelectSenderEagerSlugCheck(all, medium, i) ==
    IF \E s \in DOMAIN all.val[1] : Falsy(all.val[1][s].SLUG)
    THEN Result(all.h, Append(all.trace, Step("lookup", i, None, None, <<>>)),
                SenderSlugNotFoundException, <<>>)
    ELSE IF medium.slug \notin DOMAIN all.val[1]
    THEN Result(all.h, Append(all.trace, Step("lookup", i, None, None, <<>>)),
                RelatedSenderClassNotFound, <<>>)
    ELSE Instantiate(all.h, Append(all.trace, Step("lookup", i, None, None, <<>>)),
                     all.val[1][medium.slug], i)

\* the rest of get_sender once self.all_senders is known
SelectSender(all, medium, i) ==
    IF medium.slug \notin DOMAIN all.val[1]
    THEN Result(all.h, Append(all.trace, Step("lookup", i, None, None, <<>>)),
                RelatedSenderClassNotFound, <<>>)
    ELSE Instantiate(all.h, Append(all.trace, Step("lookup", i, None, None, <<>>)),
                     all.val[1][medium.slug], i)

\* get_sender for medium number i
get_sender(h, subs, medium, i) == SelectSender(AllSendersProperty(h, subs), medium, i)

\* the rest of get_sender_function once the sender is known
SendAttribute(sender) ==
    IF sender.err # OK THEN sender
    ELSE IF sender.val[1].send = None
         THEN Result(sender.h, sender.trace, PlainException, <<>>)
         ELSE sender

get_sender_function(h, subs, medium, i) == SendAttribute(get_sender(h, subs, medium, i))

\* (mutant) the template is returned as stored, not rendered
RenderTextRaw(event, ref_obj, medium, i) ==
    Result(event.h,
           Append(event.trace,
                  Step("render", i, None, None, get_text_for_medium(event.val[1], medium))),
           OK, get_text_for_medium(event.val[1], medium))

\* the rest of generate_text_for_medium once self.event is known
RenderText(event, ref_obj, medium, i) ==
    Result(event.h,
           Append(event.trace,
                  Step("render", i, None, None,
                       replace_variables(ref_obj, get_text_for_medium(event.val[1], medium)))),
           OK, replace_variables(ref_obj, get_text_for_medium(event.val[1], medium)))

generate_text_for_medium(h, rows, medium, i) ==
    RenderText(EventProperty(h, rows), h.ref_obj, medium, i)

handle_followup_events(h) == IF h.hook = "raise" THEN HookRaised ELSE OK

\* (mutant) the hook runs in a finally clause, also after a send that raised
CallSendHookInFinally(h, trace, sender, user, text, i) ==
    Result(h, trace \o <<Step("send", i, sender.name, user, text),
                         Step("hook", i, None, None, <<>>)>>,
           IF sender.send = "raise" THEN SendRaised ELSE handle_followup_events(h), <<>>)

\* sender_function(self.user, text), then self.handle_followup_events()
CallSend(h, trace, sender, user, text, i) ==
    IF sender.send = "raise"
    THEN Result(h, Append(trace, Step("send", i, sender.name, user, text)),
                SendRaised, <<>>)
    ELSE Result(h, trace \o <<Step("send", i, sender.name, user, text),
                              Step("hook", i, None, None, <<>>)>>,
                handle_followup_events(h), <<>>)

\* the rest of the loop body once self.user has been read
WithUser(text, func, user, i) ==
    IF user.err # OK
    THEN Result(user.h, text.trace \o func.trace \o user.trace, user.err, <<>>)
    ELSE CallSend(user.h, text.trace \o func.trace \o user.trace,
                  func.val[1], user.val[1], text.val, i)

\* (mutant) a medium without a sender is skipped
WithFunctionSkipMissing(text, func, i) ==
    IF func.err = RelatedSenderClassNotFound
    THEN Result(func.h, text.trace \o func.trace, OK, <<>>)
    ELSE IF func.err # OK
    THEN Result(func.h, text.trace \o func.trace, func.err, <<>>)
    ELSE WithUser(text, func, UserProperty(func.h), i)

\* the rest of the loop body once the sender function is known
WithFunction(text, func, i) ==
    IF func.err # OK
    THEN Result(func.h, text.trace \o func.trace, func.err, <<>>)
    ELSE WithUser(text, func, UserProperty(func.h), i)

\* the rest of the loop body once the text is generated
WithText(text, subs, medium, i) ==
    WithFunction(text, get_sender_function(text.h, subs, medium, i), i)

\* one iteration of the loop of send, for medium number i
SendOne(h, rows, subs, medium, i) ==
    WithText(generate_text_for_medium(h, rows, medium, i), subs, medium, i)

\* the loop of send from medium number i on; an exception ends it
RECURSIVE SendLoop(_, _, _, _, _, _)
AfterOne(one, rows, subs, mediums, i, trace) ==
    IF one.err # OK THEN Result(one.h, trace \o one.trace, one.err, <<>>)
    ELSE SendLoop(one.h, rows, subs, mediums, i + 1, trace \o one.trace)

SendLoop(h, rows, subs, mediums, i, trace) ==
    IF i > Len(mediums) THEN Result(h, trace, OK, <<>>)
    ELSE AfterOne(SendOne(h, rows, subs, mediums[i], i), rows, subs, mediums, i, trace)

\* (mutant) a missing event is treated as an event without mediums
SendMediumsIgnoringMissingEvent(event, rows, subs) ==
    IF event.err # OK THEN Result(event.h, event.trace, OK, <<>>)
    ELSE SendLoop(event.h, rows, subs, event.val[1].mediums, 1, event.trace)

\* the rest of send once self.event has been read
SendMediums(event, rows, subs) ==
    IF event.err # OK THEN event
    ELSE SendLoop(event.h, rows, subs, event.val[1].mediums, 1, event.trace)

\* NotificationHandler.send
send(h, rows, subs) == SendMediums(EventProperty(h, rows), rows, subs)

----------------------------------------------------------------------------
(* NotificationSender.bulk_send *)

\* (mutant) the last pair is dropped
zipOffByOne(users, texts) ==
    [i \in 1..((IF Len(users) < Len(texts) THEN Len(users) ELSE Len(texts)) - 1) |->
        <<users[i], texts[i]>>]

zip(users, texts) ==
    [i \in 1..(IF Len(users) < Len(texts) THEN Len(users) ELSE Len(texts)) |->
        <<users[i], texts[i]>>]

\* the send calls bulk_send makes; it stops at the first send that raises
RECURSIVE BulkLoop(_, _, _, _)
BulkLoop(pairs, sendOk, i, calls) ==
    IF i > Len(pairs) THEN [calls |-> calls, state |-> "done"]
    ELSE IF ~sendOk[i] THEN [calls |-> Append(calls, pairs[i]), state |-> "raised"]
    ELSE BulkLoop(pairs, sendOk, i + 1, Append(calls, pairs[i]))

bulk_send(users, texts, sendOk) == BulkLoop(zip(users, texts), sendOk, 1, <<>>)

----------------------------------------------------------------------------
(* Actions on the handler *)

Queries(trace) == Cardinality({k \in DOMAIN trace : trace[k].op = "query"})
Env(op) == [op |-> op, err |-> OK, trace |-> <<>>, arg |-> <<>>]

\* a call on the handler returns (or raises) r: what it leaves behind
Return(op, arg, r) ==
    /\ queries + Queries(r.trace) <= MaxQueries
    /\ handler' = r.h
    /\ last' = [op |-> op, err |-> r.err, trace |-> r.trace, arg |-> arg]
    /\ queries' = queries + Queries(r.trace)
    /\ firstEvent' = IF firstEvent # <<>> \/ op \notin {"event", "send"} THEN firstEvent
                     ELSE IF r.err = RelatedEventNotFound THEN <<"not found">>
                     ELSE <<"found">>
    /\ UNCHANGED <<subclasses, store>>

\* NotificationHandler(ref_obj, identifier), of a class with the given hook
Construct(ref_obj, identifier, hook) ==
    /\ handler' = NewHandler(ref_obj, identifier, hook)
    /\ last' = Env("init")
    /\ queries' = 0
    /\ firstEvent' = <<>>
    /\ UNCHANGED <<subclasses, store>>

ReadEvent == Return("event", <<>>, EventProperty(handler, store))

ReadUser == Return("user", <<>>, UserProperty(handler))

GetSender(medium) ==
    Return("get_sender", <<medium>>, get_sender(handler, subclasses, medium, 0))

Send == Return("send", <<>>, send(handler, store, subclasses))

\* class X(NotificationSender): a new variant joins __subclasses__()
Register(klass) ==
    /\ Len(subclasses) < MaxSenders
    /\ klass \notin Range(subclasses)
    /\ subclasses' = Append(subclasses, klass)
    /\ last' = Env("register")
    /\ UNCHANGED <<store, handler, queries, firstEvent>>

\* the application stores an event (identifier is unique) ...
StoreCreate(identifier, mediums) ==
    /\ \A e \in store : e.identifier # identifier
    /\ store' = store \cup {[identifier |-> identifier, mediums |-> mediums]}
    /\ last' = Env("create")
    /\ UNCHANGED <<subclasses, handler, queries, firstEvent>>

\* ... or deletes one
StoreDelete(e) ==
    /\ e \in store
    /\ store' = store \ {e}
    /\ last' = Env("delete")
    /\ UNCHANGED <<subclasses, handler, queries, firstEvent>>

RenderIdle == rtext = <<>> /\ robj = RefNote /\ rout = <<>>
BulkIdle ==
    /\ busers = <<>> /\ btexts = <<>> /\ bsendOk = <<>>
    /\ bcalls = <<>> /\ bstate = "idle"
HandlerIdle ==
    /\ subclasses = <<>> /\ store = {} /\ queries = 0
    /\ firstEvent = <<>> /\ last = Env("init")
    /\ handler = NewHandler(RefNote, "welcome", "pass")

----------------------------------------------------------------------------
(* Dispatch: any reference object, hook, event and registry; handlers are  *)
(* constructed and told to send, again and again, while variants register  *)
(* and events are stored.                                                  *)

Hooks == {"pass", "raise"}

Init ==
    /\ subclasses = <<>>
    /\ store = {}
    /\ handler \in {NewHandler(o, id, hook) :
                       o \in RefObjs, id \in Identifiers, hook \in Hooks}
    /\ last = Env("init")
    /\ queries = 0
    /\ firstEvent = <<>>
    /\ RenderIdle
    /\ BulkIdle

Next ==
    \/ \E o \in RefObjs, id \in Identifiers, hook \in Hooks :
          Construct(o, id, hook) /\ UNCHANGED <<renderVars, bulkVars>>
    \/ Send /\ UNCHANGED <<renderVars, bulkVars>>
    \/ \E k \in SenderClasses : Register(k) /\ UNCHANGED <<renderVars, bulkVars>>
    \/ \E id \in Identifiers, ms \in MediumLists :
          StoreCreate(id, ms) /\ UNCHANGED <<renderVars, bulkVars>>

Spec == Init /\ [][Next]_vars

----------------------------------------------------------------------------
(* Caching: one kind of handler whose cached properties are read again and *)
(* again while events come and go and variants register.                   *)

CacheRefObjs == {RefOrder, RefDraft}
CacheClasses == {EmailSender, EmptySlugSender}
CacheMediumLists == {<<>>, <<Email>>}

CacheInit ==
    /\ subclasses = <<>>
    /\ store = {}
    /\ handler \in {NewHandler(o, id, "pass") : o \in CacheRefObjs, id \in Identifiers}
    /\ last = Env("init")
    /\ queries = 0
    /\ firstEvent = <<>>
    /\ RenderIdle
    /\ BulkIdle

CacheNext ==
    \/ \E o \in CacheRefObjs, id \in Identifiers :
          Construct(o, id, "pass") /\ UNCHANGED <<renderVars, bulkVars>>
    \/ ReadEvent /\ UNCHANGED <<renderVars, bulkVars>>
    \/ ReadUser /\ UNCHANGED <<renderVars, bulkVars>>
    \/ \E m \in Mediums : GetSender(m) /\ UNCHANGED <<renderVars, bulkVars>>
    \/ Send /\ UNCHANGED <<renderVars, bulkVars>>
    \/ \E k \in CacheClasses : Register(k) /\ UNCHANGED <<renderVars, bulkVars>>
    \/ \E id \in Identifiers, ms \in CacheMediumLists :
          StoreCreate(id, ms) /\ UNCHANGED <<renderVars, bulkVars>>
    \/ \E e \in store : StoreDelete(e) /\ UNCHANGED <<renderVars, bulkVars>>

SpecCache == CacheInit /\ [][CacheNext]_vars

----------------------------------------------------------------------------
(* Rendering: replace_variables on templates put together from tokens,     *)
(* plain text and stray braces, against objects whose field values may     *)
(* themselves look like tokens.                                            *)

Pieces == {TokA, TokB, TokASpaced, <<"x">>, <<"{", "{">>, <<"}", "}">>}

RECURSIVE Concat(_)
Concat(ps) == IF ps = <<>> THEN <<>> ELSE Head(ps) \o Concat(Tail(ps))

Templates == {Concat(ps) : ps \in SeqsUpTo(Pieces, MaxPieces)}

AValues == {<<>>, <<"x">>, TokB, TokASpaced, <<"{", "{">>}
BValues == {<<"1">>, TokA}
RenderObjs ==
    {[id |-> "obj", isUser |-> FALSE, attrs |-> (FieldA :> a) @@ (FieldB :> b)] :
        a \in AValues, b \in BValues}
    \cup {[id |-> "obj", isUser |-> FALSE, attrs |-> (FieldA :> a)] : a \in AValues}
    \cup {[id |-> "obj", isUser |-> FALSE, attrs |-> (FieldB :> b)] : b \in BValues}

Render ==
    /\ rout = <<>>
    /\ rout' = <<replace_variables(robj, rtext)>>
    /\ UNCHANGED <<rtext, robj>>

RenderInit ==
    /\ rtext \in Templates
    /\ robj \in RenderObjs
    /\ rout = <<>>
    /\ HandlerIdle
    /\ BulkIdle

RenderNext == Render /\ UNCHANGED <<handlerVars, bulkVars>>

SpecRender == RenderInit /\ [][RenderNext]_vars

----------------------------------------------------------------------------
(* bulk_send of a variant whose send returns or raises, call by call *)

BulkUsers == {"u1", "u2"}
BulkTexts == {"t1", "t2"}

BulkSend ==
    /\ bstate = "idle"
    /\ LET r == bulk_send(busers, btexts, bsendOk)
       IN bcalls' = r.calls /\ bstate' = r.state
    /\ UNCHANGED <<busers, btexts, bsendOk>>

BulkInit ==
    /\ busers \in SeqsUpTo(BulkUsers, MaxBulk)
    /\ btexts \in SeqsUpTo(BulkTexts, MaxBulk)
    /\ bsendOk \in [1..MaxBulk -> BOOLEAN]
    /\ bcalls = <<>>
    /\ bstate = "idle"
    /\ HandlerIdle
    /\ RenderIdle

BulkNext == BulkSend /\ UNCHANGED <<handlerVars, renderVars>>

SpecBulk == BulkInit /\ [][BulkNext]_vars

----------------------------------------------------------------------------
(* Reading the outcome of the last call *)

Dispatched == last.op = "send"
Found == handler.event # <<>>
TheMediums == handler.event[1].mediums
Mapping == IF handler.all_senders = <<>> THEN <<>> ELSE handler.all_senders[1]
StepsOf(ops) == SelectSeq(last.trace, LAMBDA e : e.op \in ops)
UserResolvable == handler.ref_obj.isUser \/ ~Falsy(getattr(handler.ref_obj, UserAttr, None))
TheUser == IF handler.ref_obj.isUser THEN handler.ref_obj.id
           ELSE getattr(handler.ref_obj, UserAttr, None)
Registered(medium) == medium.slug \in DOMAIN Mapping
Working(medium) ==
    /\ Registered(medium)
    /\ ~Falsy(Mapping[medium.slug].SLUG)
    /\ Mapping[medium.slug].send = "ok"
Rendered(medium) ==
    replace_variables(handler.ref_obj, get_text_for_medium(handler.event[1], medium))
ClassNamed(n) == CHOOSE c \in SenderClasses : c.name = n
NoRowFor(h) == \A e \in store : e.identifier # h.identifier

----------------------------------------------------------------------------
(* C1 *)

\* C1: a dispatch whose event is found, whose user resolves, whose hook is
\* the default one and all of whose mediums have a registered sender (in the
\* handler's mapping) with a working send ends without error and calls send
\* exactly once per medium, in the event's medium order, on the sender of that
\* medium's slug, with the resolved user and the medium's rendered text; with
\* no mediums it calls no send.
C1_OneSendPerMedium ==
    (/\ Dispatched /\ Found /\ UserResolvable /\ handler.hook = "pass"
     /\ \A i \in DOMAIN TheMediums : Working(TheMediums[i]))
    => /\ last.err = OK
       /\ LET sends == StepsOf({"send"})
          IN /\ Len(sends) = Len(TheMediums)
             /\ \A i \in DOMAIN TheMediums :
                   /\ sends[i].i = i
                   /\ sends[i].cls = Mapping[TheMediums[i].slug].name
                   /\ sends[i].user = TheUser
                   /\ sends[i].text = Rendered(TheMediums[i])

\* C1 witness: a dispatch over two mediums ended without error after two sends with different texts
C1_Witness ==
    /\ Dispatched /\ Found /\ last.err = OK
    /\ Len(TheMediums) = 2
    /\ Len(StepsOf({"send"})) = 2
    /\ StepsOf({"send"})[1].text # StepsOf({"send"})[2].text

----------------------------------------------------------------------------
(* C2 *)

\* C2 as claimed: without a resolvable user, a dispatch on a found event fails
\* with UserNotFound before any medium is processed (nothing rendered, no
\* sender looked up or instantiated, no send).
C2_FailsFastWithoutUser ==
    (Dispatched /\ Found /\ ~UserResolvable)
    => /\ last.err = RelatedUserNotFound
       /\ StepsOf({"render", "build", "lookup", "instantiate", "send"}) = <<>>

\* C2 as amended: without a resolvable user a dispatch on a found event never
\* calls send or the hook. The user is resolved only when the first send is
\* about to be called: with no mediums the dispatch ends without error; with
\* mediums, the first one is rendered and its sender looked up first, so the
\* dispatch fails with that lookup's error if it has one, and otherwise with
\* UserNotFound after the render and the instantiation of the first sender.
C2_NoSendWithoutUser ==
    (Dispatched /\ Found /\ ~UserResolvable)
    => /\ StepsOf({"send", "hook"}) = <<>>
       /\ \A k \in DOMAIN last.trace : last.trace[k].i <= 1
       /\ TheMediums = <<>> => last.err = OK /\ StepsOf({"resolve_user"}) = <<>>
       /\ TheMediums # <<>> =>
             LET m == TheMediums[1]
             IN /\ ~Registered(m) => last.err = RelatedSenderClassNotFound
                /\ Registered(m) /\ Falsy(Mapping[m.slug].SLUG)
                      => last.err = SenderSlugNotFoundException
                /\ Registered(m) /\ ~Falsy(Mapping[m.slug].SLUG)
                      => /\ last.err = RelatedUserNotFound
                         /\ Len(StepsOf({"render"})) = 1
                         /\ Len(StepsOf({"instantiate"})) = 1
                         /\ last.trace[Len(last.trace)].op = "resolve_user"

\* C2 witness: a dispatch over two mediums without a resolvable user failed with UserNotFound after one sender was instantiated
C2_Witness ==
    /\ Dispatched /\ Found /\ ~UserResolvable
    /\ last.err = RelatedUserNotFound
    /\ Len(TheMediums) = 2
    /\ Len(StepsOf({"instantiate"})) = 1

----------------------------------------------------------------------------
(* C3 *)

\* C3: a dispatch by a handler that has not resolved its event yet, on an
\* identifier the store holds no event for, fails with EventNotFound after
\* the one query: no send, no sender instantiation, no hook call, no user
\* resolution, whatever the reference object is.
C3_NoEventNoSend ==
    [][(last'.op = "send" /\ handler.event = <<>> /\ NoRowFor(handler))
       => /\ last'.err = RelatedEventNotFound
          /\ last'.trace = <<Step("query", 0, None, None, <<>>)>>
          /\ handler' = handler]_vars

\* C3 witness: a dispatch failed with EventNotFound for a reference object without a user, with variants registered
C3_Witness ==
    /\ Dispatched /\ last.err = RelatedEventNotFound
    /\ ~UserResolvable
    /\ subclasses # <<>>

----------------------------------------------------------------------------
(* C4 *)

\* C4: when medium k is the first whose slug is not in the handler's
\* slug-to-sender mapping, the mediums before it have working senders, and
\* (for k > 1) the user resolves and the hook returns, the dispatch fails
\* with SenderClassNotFound after exactly k-1 sends and k-1 hook calls, those
\* of mediums 1..k-1 in order; nothing is instantiated, sent or hooked for
\* medium k or later. And a dispatch that fails with SenderClassNotFound
\* fails at such a medium.
C4_FailsAtFirstMissingSender ==
    (Dispatched /\ Found)
    => /\ \A k \in DOMAIN TheMediums :
             (/\ handler.all_senders # <<>>
              /\ ~Registered(TheMediums[k])
              /\ \A j \in 1..(k - 1) : Working(TheMediums[j])
              /\ k = 1 \/ (UserResolvable /\ handler.hook = "pass"))
             => /\ last.err = RelatedSenderClassNotFound
                /\ Len(StepsOf({"send"})) = k - 1
                /\ Len(StepsOf({"hook"})) = k - 1
                /\ \A j \in 1..(k - 1) :
                      StepsOf({"send"})[j].i = j /\ StepsOf({"hook"})[j].i = j
                /\ \A n \in DOMAIN last.trace :
                      /\ last.trace[n].i <= k
                      /\ last.trace[n].i = k
                            => last.trace[n].op \in {"render", "build", "lookup"}
       /\ last.err = RelatedSenderClassNotFound
             => \E k \in DOMAIN TheMediums :
                   /\ ~Registered(TheMediums[k])
                   /\ \A j \in 1..(k - 1) : Registered(TheMediums[j])
                   /\ Len(StepsOf({"send"})) = k - 1

\* C4 witness: a dispatch failed with SenderClassNotFound at its second medium, after one send and one hook call
C4_Witness ==
    /\ Dispatched /\ Found /\ last.err = RelatedSenderClassNotFound
    /\ Len(StepsOf({"send"})) = 1
    /\ Len(StepsOf({"hook"})) = 1

----------------------------------------------------------------------------
(* C5 *)

\* C5 as claimed: the mapping is rebuilt on every lookup, so get_sender finds
\* every variant registered by the time of the call.
C5_LookupSeesRegistry ==
    last.op = "get_sender"
    => (last.err = RelatedSenderClassNotFound
           <=> \A i \in DOMAIN subclasses : subclasses[i].SLUG # last.arg[1].slug)

\* C5 as amended: the mapping is built from the variants registered at the
\* handler instance's first lookup and kept for the instance's lifetime; every
\* get_sender on the instance answers from that mapping, so a variant
\* registered after the first lookup is not found on that instance.
C5_MappingBuiltOnce ==
    [][last'.op # "init"
       => /\ handler.all_senders # <<>> => handler'.all_senders = handler.all_senders
          /\ (handler.all_senders = <<>> /\ handler'.all_senders # <<>>)
                => handler'.all_senders = <<BuildSenders(subclasses)>>
          /\ last'.op = "get_sender"
                => /\ handler'.all_senders # <<>>
                   /\ last'.err = RelatedSenderClassNotFound
                         <=> last'.arg[1].slug \notin DOMAIN handler'.all_senders[1]]_vars

\* C5 witness: get_sender raised SenderClassNotFound for a slug that a registered variant declares
C5_Witness ==
    /\ last.op = "get_sender"
    /\ last.err = RelatedSenderClassNotFound
    /\ \E i \in DOMAIN subclasses : subclasses[i].SLUG = last.arg[1].slug

----------------------------------------------------------------------------
(* C6 *)

\* the template with each token replaced, in one pass, by its own field's value
RECURSIVE TokenWise(_, _, _, _, _)
TokenWise(obj, text, matches, k, pos) ==
    IF k > Len(matches) THEN SubSeq(text, pos, Len(text))
    ELSE SubSeq(text, pos, matches[k].start - 1)
         \o getattr(obj, matches[k].group2, <<>>)
         \o TokenWise(obj, text, matches, k + 1, matches[k].end)

\* C6: rendering resolves nothing nested: the result is the template with each
\* of its tokens replaced by that token's field value (empty when absent), and
\* text brought in by a value stays as it is.
C6_NoNestedResolution ==
    rout # <<>> => rout[1] = TokenWise(robj, rtext, finditer(rtext, 1), 1, 1)

----------------------------------------------------------------------------
(* C7 *)

\* C7 as claimed: over a handler instance's lifetime the event store is
\* queried at most once, and every read of the event ends as the first did.
C7_ResolvedAtMostOnce ==
    /\ queries <= 1
    /\ (last.op \in {"event", "send"} /\ firstEvent # <<>>)
          => (last.err = RelatedEventNotFound <=> firstEvent = <<"not found">>)

\* C7 as amended: once the event (the user) of a handler instance has been
\* resolved, every later read and dispatch on the instance gets the same one
\* without a query (without resolving again), whatever the store holds by
\* then. A failed resolution is not cached: each read of the event on an
\* instance that has not resolved it queries the store once more, and caches
\* the event exactly when it is found.
C7_CachedOnceResolved ==
    [][last'.op # "init"
       => /\ handler.event # <<>>
                => /\ handler'.event = handler.event
                   /\ queries' = queries
                   /\ Queries(last'.trace) = 0
          /\ handler.user # <<>>
                => /\ handler'.user = handler.user
                   /\ \A k \in DOMAIN last'.trace : last'.trace[k].op # "resolve_user"
          /\ (handler.event = <<>> /\ last'.op \in {"event", "send"})
                => /\ queries' = queries + 1
                   /\ handler'.event = <<>> <=> last'.err = RelatedEventNotFound
                   /\ handler'.event = <<>> <=> NoRowFor(handler)
          /\ (handler.user = <<>> /\ last'.op = "user")
                => /\ Len(last'.trace) = 1
                   /\ handler'.user = <<>> <=> last'.err = RelatedUserNotFound]_vars

\* C7 witness: after a failed read and a second query the event is cached, and a read returns it without a query though its row is gone
C7_Witness ==
    /\ queries = 2
    /\ firstEvent = <<"not found">>
    /\ Found
    /\ NoRowFor(handler)
    /\ last.op = "event" /\ last.err = OK /\ last.trace = <<>>

----------------------------------------------------------------------------
(* C8 *)

\* C8: registering a variant never fails, whatever its SLUG; a dispatch fails
\* with SenderSlugMissing only at the instantiation of a variant without a
\* SLUG that the mapping holds under the slug of the medium being processed;
\* and a dispatch none of whose mediums selects such a variant does not fail
\* with SenderSlugMissing: it completes when the user resolves, the hook
\* returns and the mediums have working senders, whatever else is registered.
C8_SlugCheckedAtInstantiation ==
    /\ last.op = "register" => last.err = OK
    /\ last.err = SenderSlugNotFoundException
          => /\ Dispatched /\ Found
             /\ LET step == last.trace[Len(last.trace)]
                IN /\ step.op = "instantiate"
                   /\ step.i \in DOMAIN TheMediums
                   /\ Registered(TheMediums[step.i])
                   /\ Mapping[TheMediums[step.i].slug].name = step.cls
                   /\ Falsy(ClassNamed(step.cls).SLUG)
    /\ (/\ Dispatched /\ Found
        /\ \A i \in DOMAIN TheMediums :
              Registered(TheMediums[i]) => ~Falsy(Mapping[TheMediums[i].slug].SLUG))
          => /\ last.err # SenderSlugNotFoundException
             /\ (/\ UserResolvable /\ handler.hook = "pass"
                 /\ \A i \in DOMAIN TheMediums : Working(TheMediums[i]))
                   => last.err = OK

\* C8 witness: a dispatch with mediums completed while the mapping holds a variant without a SLUG
C8_Witness ==
    /\ Dispatched /\ Found /\ last.err = OK
    /\ TheMediums # <<>>
    /\ \E s \in DOMAIN Mapping : Falsy(Mapping[s].SLUG)

----------------------------------------------------------------------------
(* C9 *)

ShorterLen == IF Len(busers) < Len(btexts) THEN Len(busers) ELSE Len(btexts)

\* C9: bulk_send calls send(users[i], texts[i]) once for each position i up to
\* the shorter length, in increasing order, and for no other pair; it stops
\* early only at a send that raises.
C9_BulkSendPairs ==
    bstate # "idle"
    => /\ Len(bcalls) <= ShorterLen
       /\ \A i \in DOMAIN bcalls : bcalls[i] = <<busers[i], btexts[i]>>
       /\ bstate = "done" => Len(bcalls) = ShorterLen
       /\ bstate = "raised" => ~bsendOk[Len(bcalls)]
       /\ \A i \in 1..(Len(bcalls) - 1) : bsendOk[i]

\* C9 witness: bulk_send over sequences of different lengths completed after two calls
C9_Witness ==
    /\ bstate = "done"
    /\ Len(busers) # Len(btexts)
    /\ Len(bcalls) = 2

----------------------------------------------------------------------------
(* C10 *)

\* C10: in a dispatch the calls of send and of the hook alternate, send of
\* medium 1, hook, send of medium 2, hook, ...: the hook runs once after each
\* send that returns and before the next send. When a send raises, the
\* dispatch ends there with that error, without the hook for that medium;
\* when the hook raises, the dispatch ends there with that error; in both
\* cases no later medium is rendered, looked up or sent to.
C10_HookAfterEachSend ==
    Dispatched
    => LET calls == StepsOf({"send", "hook"})
           n == Len(calls)
           final == last.trace[Len(last.trace)]
       IN /\ \A k \in 1..n :
                /\ calls[k].op = (IF k % 2 = 1 THEN "send" ELSE "hook")
                /\ calls[k].i = (k + 1) \div 2
          /\ \A k \in 1..n :
                (calls[k].op = "send" /\ ClassNamed(calls[k].cls).send = "raise")
                => /\ k = n
                   /\ last.err = SendRaised
                   /\ final = calls[k]
          /\ \A k \in 1..n :
                (calls[k].op = "send" /\ ClassNamed(calls[k].cls).send = "ok")
                => k < n
          /\ \A k \in 1..n :
                (calls[k].op = "hook" /\ handler.hook = "raise")
                => /\ k = n
                   /\ last.err = HookRaised
                   /\ final = calls[k]
          /\ last.err \in {SendRaised, HookRaised}
                => /\ n > 0
                   /\ final = calls[n]
                   /\ \A j \in DOMAIN last.trace : last.trace[j].i <= final.i
          /\ last.err = SendRaised => ClassNamed(final.cls).send = "raise"
          /\ last.err = HookRaised => final.op = "hook" /\ handler.hook = "raise"

\* C10 witness: with two mediums, the first send raised: one send, no hook, nothing for the second medium
C10_Witness ==
    /\ Dispatched /\ Found /\ last.err = SendRaised
    /\ Len(TheMediums) = 2
    /\ Len(StepsOf({"send"})) = 1
    /\ Len(StepsOf({"hook"})) = 0

====
